---- MODULE Spec2Model ----
(***************************************************************************)
(* Model of the static-site search (js/buscador.js) and of the             *)
(* internationalisation store (js/i18n.js).                                *)
(*                                                                         *)
(* Representation.  A JavaScript string is a sequence of atoms.  An atom   *)
(* is one character wherever the code works on characters (queries, page   *)
(* texts) and one opaque token where it does not (a fixed message, a file  *)
(* name, a markup tag).  A JavaScript value is a record tagged by t.       *)
(***************************************************************************)
EXTENDS Integers, Sequences, FiniteSets, TLC

(***************************************************************************)
(* JavaScript values                                                       *)
(***************************************************************************)
Undefined == [t |-> "undefined"]

Null == [t |-> "null"]

Str(s) == [t |-> "string", v |-> s]

Num(n) == [t |-> "number", n |-> n]

Bool(b) == [t |-> "boolean", b |-> b]

Obj(f) == [t |-> "object", f |-> f]

Builtin(name) == [t |-> "function", name |-> name]

NoProps == [k \in {} |-> Undefined]

EmptyObject == Obj(NoProps)

\* ToBoolean: undefined, null, "", 0 and false are falsy; every object is
\* truthy.
Truthy(v) ==
    CASE v.t = "undefined" -> FALSE
      [] v.t = "null"      -> FALSE
      [] v.t = "string"    -> v.v # <<>>
      [] v.t = "number"    -> v.n # 0
      [] v.t = "boolean"   -> v.b
      [] OTHER             -> TRUE

\* a || b
Or(a, b) == IF Truthy(a) THEN a ELSE b

\* Members every object inherits from Object.prototype.
ObjectPrototypeKeys ==
    { <<"constructor">>, <<"toString">>, <<"valueOf">>, <<"hasOwnProperty">>,
      <<"isPrototypeOf">>, <<"propertyIsEnumerable">>, <<"toLocaleString">> }

\* Members of String.prototype / Function.prototype / Number.prototype that
\* are not already on Object.prototype (a selection; all are functions).
StringPrototypeKeys == { <<"trim">>, <<"split">>, <<"toLowerCase">>, <<"indexOf">> }

FunctionPrototypeKeys == { <<"call">>, <<"apply">>, <<"bind">> }

NumberPrototypeKeys == { <<"toFixed">> }

DigitValue ==
    ("0" :> 0) @@ ("1" :> 1) @@ ("2" :> 2) @@ ("3" :> 3) @@ ("4" :> 4) @@
    ("5" :> 5) @@ ("6" :> 6) @@ ("7" :> 7) @@ ("8" :> 8) @@ ("9" :> 9)

\* obj[k] for a value that is neither undefined nor null: own property first,
\* then the prototype chain; a string also has length and its indices.
GetProp(obj, k) ==
    CASE obj.t = "object" ->
            IF k \in DOMAIN obj.f THEN obj.f[k]
            ELSE IF k \in ObjectPrototypeKeys THEN Builtin(k[1])
            ELSE Undefined
      [] obj.t = "string" ->
            IF k = <<"length">> THEN Num(Len(obj.v))
            ELSE IF Len(k) = 1 /\ k[1] \in DOMAIN DigitValue
                    /\ DigitValue[k[1]] < Len(obj.v)
                 THEN Str(<<obj.v[DigitValue[k[1]] + 1]>>)
            ELSE IF k \in StringPrototypeKeys \cup ObjectPrototypeKeys
                 THEN Builtin(k[1])
            ELSE Undefined
      [] obj.t = "function" ->
            IF k = <<"name">> THEN Str(<<obj.name>>)
            ELSE IF k = <<"length">> THEN Num(1)
            ELSE IF k \in FunctionPrototypeKeys \cup ObjectPrototypeKeys
                 THEN Builtin(k[1])
            ELSE Undefined
      [] obj.t = "number" ->
            IF k \in NumberPrototypeKeys \cup ObjectPrototypeKeys
            THEN Builtin(k[1])
            ELSE Undefined
      [] OTHER -> Undefined

\* obj[k] = v
SetProp(obj, k, v) ==
    Obj([x \in DOMAIN obj.f \cup {k} |-> IF x = k THEN v ELSE obj.f[x]])

\* String(v), as applied when a value is written to textContent, to value or
\* to an attribute.
ToStr(v) ==
    CASE v.t = "string"    -> v.v
      [] v.t = "number"    -> <<ToString(v.n)>>
      [] v.t = "object"    -> <<"[object Object]">>
      [] v.t = "function"  -> <<"function ", v.name, "() { [native code] }">>
      [] v.t = "null"      -> <<"null">>
      [] v.t = "boolean"   -> IF v.b THEN <<"true">> ELSE <<"false">>
      [] OTHER             -> <<"undefined">>

(***************************************************************************)
(* String primitives                                                       *)
(***************************************************************************)
Min(a, b) == IF a < b THEN a ELSE b

Max(a, b) == IF a > b THEN a ELSE b

\* The atoms of s from 0-based position a (inclusive) to b (exclusive).
Slice(s, a, b) == SubSeq(s, a + 1, b)

\* String.prototype.substring: both indices are clamped to [0, length] and
\* swapped when start > end.
Substring(s, start, end) ==
    LET a == Max(0, Min(start, Len(s)))
        b == Max(0, Min(end, Len(s)))
    IN  Slice(s, Min(a, b), Max(a, b))

\* String.prototype.indexOf: the 0-based index of the first occurrence, or -1.
IndexOf(s, needle) ==
    LET hits == { i \in 0..(Len(s) - Len(needle)) :
                    Slice(s, i, i + Len(needle)) = needle }
    IN  IF hits = {} THEN -1
        ELSE CHOOSE i \in hits : \A j \in hits : i <= j

WhiteSpace == { " ", "\t", "\n" }

\* String.prototype.trim
Trim(s) ==
    LET keep == { i \in 1..Len(s) : s[i] \notin WhiteSpace }
    IN  IF keep = {} THEN <<>>
        ELSE SubSeq(s, CHOOSE i \in keep : \A j \in keep : i <= j,
                       CHOOSE i \in keep : \A j \in keep : i >= j)

\* String.prototype.split with a one-atom separator: "" gives [""].
RECURSIVE Split(_, _)
Split(s, sep) ==
    LET i == IndexOf(s, <<sep>>)
    IN  IF i = -1 THEN <<s>>
        ELSE <<Slice(s, 0, i)>> \o Split(Slice(s, i + 1, Len(s)), sep)

\* The concatenation of a sequence of strings (by halves, to keep the
\* evaluation shallow on long texts).
RECURSIVE Flatten(_)
Flatten(ss) ==
    IF ss = <<>> THEN <<>>
    ELSE IF Len(ss) = 1 THEN ss[1]
    ELSE LET h == Len(ss) \div 2
         IN  Flatten(SubSeq(ss, 1, h)) \o Flatten(SubSeq(ss, h + 1, Len(ss)))

\* The lower-case mapping of one character.  U+0130 (capital I with dot
\* above) lower-cases to two code units, i followed by U+0307.
LowerChar(c) ==
    CASE c = "A" -> <<"a">>
      [] c = "B" -> <<"b">>
      [] c = "C" -> <<"c">>
      [] c = "H" -> <<"h">>
      [] c = "I" -> <<"i">>
      [] c = "U+0130" -> <<"i", "U+0307">>
      [] OTHER   -> <<c>>

\* String.prototype.toLowerCase
ToLowerCase(s) == Flatten([i \in 1..Len(s) |-> LowerChar(s[i])])

(***************************************************************************)
(* Regular expressions: the subset of RegExp that a pattern built from a   *)
(* query can use.  A compiled pattern is a sequence of items, each one     *)
(* atom (a character, the wildcard, an anchor) with its repetition.        *)
(***************************************************************************)
\* The characters of the class [.*+?^${}()|[\]\\] in escapeRegExp.
RegExpSpecials ==
    { ".", "*", "+", "?", "^", "$", "{", "}", "(", ")", "|", "[", "]", "\\" }

\* A faulty escape that leaves the wildcard and the repetition signs alone.
EscapeCharKeepsWildcards(c) ==
    IF c \in RegExpSpecials \ { ".", "+", "*", "?" } THEN <<"\\", c>> ELSE <<c>>

\* '\\$&' for a character of the class, the character itself otherwise.
EscapeChar(c) == IF c \in RegExpSpecials THEN <<"\\", c>> ELSE <<c>>

\* string.replace(/[.*+?^${}()|[\]\\]/g, '\\$&')
escapeRegExp(string) ==
    Flatten([i \in 1..Len(string) |-> EscapeChar(string[i])])

\* Canonicalize of the ignore-case flag (no unicode flag): the upper-case
\* mapping of the single character.
CanonChar(c) ==
    CASE c = "a" -> "A"
      [] c = "b" -> "B"
      [] c = "c" -> "C"
      [] c = "h" -> "H"
      [] c = "i" -> "I"
      [] OTHER   -> c

Unbounded == 0 - 1

Item(kind, c) == [kind |-> kind, c |-> c, min |-> 1, max |-> 1, lazy |-> FALSE]

SyntaxError == [ok |-> FALSE, items |-> <<>>]

\* Whether position i of the pattern body is escaped: an odd number of
\* backslashes runs up to it.
RECURSIVE Escaped(_, _)
Escaped(body, i) == i > 1 /\ body[i - 1] = "\\" /\ ~Escaped(body, i - 1)

\* The items of a pattern body, read by position: a backslash escapes the
\* next character; * + ? repeat the atom before them; a ? after a repetition
\* makes it lazy.
ParseItems(body) ==
    LET pos == 1..Len(body)
        unesc(i) == ~Escaped(body, i)
        escaper(i) == unesc(i) /\ body[i] = "\\"
        qchar(i) == unesc(i) /\ body[i] \in { "*", "+", "?" }
        atomAt(i) == ~escaper(i) /\ ~qchar(i)
        quant(i) == qchar(i) /\ i > 1 /\ atomAt(i - 1)
        lazy(i) == qchar(i) /\ body[i] = "?" /\ i > 1 /\ quant(i - 1)
        kind(i) == IF ~unesc(i) THEN "char"
                   ELSE CASE body[i] = "." -> "any"
                          [] body[i] = "^" -> "bol"
                          [] body[i] = "$" -> "eol"
                          [] OTHER         -> "char"
        bad == \/ \E i \in pos : qchar(i) /\ ~quant(i) /\ ~lazy(i)
               \/ \E i \in pos : unesc(i) /\ body[i] \in { "(", ")", "[", "|" }
               \/ \E i \in pos : escaper(i) /\ i = Len(body)
               \/ \E i \in pos : quant(i) /\ kind(i - 1) \in { "bol", "eol" }
        item(i) ==
            IF i < Len(body) /\ quant(i + 1)
            THEN [kind |-> kind(i), c |-> body[i],
                  min |-> IF body[i + 1] = "+" THEN 1 ELSE 0,
                  max |-> IF body[i + 1] = "?" THEN 1 ELSE Unbounded,
                  lazy |-> i + 1 < Len(body) /\ lazy(i + 2)]
            ELSE Item(kind(i), body[i])
    IN  IF bad THEN SyntaxError
        ELSE [ok |-> TRUE,
              items |-> Flatten([i \in pos |-> IF atomAt(i) THEN <<item(i)>>
                                                ELSE <<>>])]

\* new RegExp(source, 'ig') for a source that is one capturing group around
\* the body: group 1 is the whole match.
Compile(source) ==
    IF Len(source) < 2 \/ source[1] # "(" \/ source[Len(source)] # ")"
    THEN SyntaxError
    ELSE ParseItems(Slice(source, 1, Len(source) - 1))

AtomMatches(it, c) ==
    CASE it.kind = "char" -> CanonChar(c) = CanonChar(it.c)
      [] it.kind = "any"  -> c # "\n"
      [] OTHER            -> FALSE

Single(it) == it.kind \in { "char", "any" } /\ it.min = 1 /\ it.max = 1

\* The 0-based end of the match of items[k..] at 0-based position pos of text
\* that backtracking finds first, or -1 when there is none.  A run of
\* unrepeated atoms is compared in one step.
RECURSIVE MatchFrom(_, _, _, _)
MatchFrom(items, k, text, pos) ==
    IF k > Len(items) THEN pos
    ELSE
      LET it == items[k] IN
      CASE it.kind = "bol" -> IF pos = 0 THEN MatchFrom(items, k + 1, text, pos) ELSE -1
        [] it.kind = "eol" -> IF pos = Len(text) THEN MatchFrom(items, k + 1, text, pos) ELSE -1
        [] Single(it) ->
            LET stops == { m \in k..Len(items) :
                             m = Len(items) \/ ~Single(items[m + 1]) }
                n == (CHOOSE x \in stops : \A y \in stops : x <= y) - k + 1
            IN  IF /\ pos + n <= Len(text)
                   /\ \A m \in 1..n : AtomMatches(items[k + m - 1], text[pos + m])
                THEN MatchFrom(items, k + n, text, pos + n)
                ELSE -1
        [] OTHER ->
            LET limit == IF it.max = Unbounded THEN Len(text) - pos
                         ELSE Min(it.max, Len(text) - pos)
                run == { n \in it.min..limit :
                           \A m \in 1..n : AtomMatches(it, text[pos + m]) }
                ends == { <<n, MatchFrom(items, k + 1, text, pos + n)>> : n \in run }
                good == { e \in ends : e[2] # -1 }
                best == IF it.lazy
                        THEN CHOOSE x \in good : \A y \in good : x[1] <= y[1]
                        ELSE CHOOSE x \in good : \A y \in good : x[1] >= y[1]
            IN  IF good = {} THEN -1 ELSE best[2]

\* The matches of a global regex in text, left to right from position pos:
\* a sequence of <<start, end>> (0-based, end exclusive).
RECURSIVE MatchSpans(_, _, _)
MatchSpans(items, text, pos) ==
    LET starts == { p \in pos..Len(text) : MatchFrom(items, 1, text, p) # -1 } IN
    IF starts = {} THEN <<>>
    ELSE
      LET p == CHOOSE x \in starts : \A y \in starts : x <= y
          e == MatchFrom(items, 1, text, p)
      IN  <<<<p, e>>>> \o MatchSpans(items, text, IF e = p THEN p + 1 ELSE e)

Mark == <<"<mark>">>

EndMark == <<"</mark>">>

\* text.replace(regex, '<mark>$1</mark>') given the matches of regex in text.
RECURSIVE ReplaceSpans(_, _, _)
ReplaceSpans(text, spans, pos) ==
    IF spans = <<>> THEN Slice(text, pos, Len(text))
    ELSE
      LET s == Head(spans) IN
      Slice(text, pos, s[1]) \o Mark \o Slice(text, s[1], s[2]) \o EndMark
        \o ReplaceSpans(text, Tail(spans), s[2])

(***************************************************************************)
(* The per-page step of search(): locate the query and build the snippet   *)
(***************************************************************************)
SnippetRadius == 80

\* (plain || '').toLowerCase().indexOf(qLower)
MatchIndex(plain, q) == IndexOf(ToLowerCase(plain), ToLowerCase(q))

\* Math.max(0, idx - 80)
SnippetStart(idx) == Max(0, idx - SnippetRadius)

\* Math.min(plain.length, idx + 80)
SnippetEnd(plain, idx) == Min(Len(plain), idx + SnippetRadius)

\* (plain || '').substring(start, end).trim()
SnippetWindow(plain, idx) ==
    Trim(Substring(plain, SnippetStart(idx), SnippetEnd(plain, idx)))

\* new RegExp('(' + this.escapeRegExp(q) + ')', 'ig')
HighlightRegex(q) == Compile(<<"(">> \o escapeRegExp(q) \o <<")">>)

\* snippet.replace(regex, '<mark>$1</mark>')
Highlight(window, q) ==
    ReplaceSpans(window, MatchSpans(HighlightRegex(q).items, window, 0), 0)

\* The body of texts.forEach for one extracted text: what it pushes to the
\* result list (hit), and whether it throws (new RegExp on a bad pattern).
SearchText(plain, q) ==
    LET idx == MatchIndex(plain, q) IN
    IF idx = -1 THEN [hit |-> FALSE, threw |-> FALSE, idx |-> idx, snippet |-> <<>>]
    ELSE IF ~HighlightRegex(q).ok
         THEN [hit |-> FALSE, threw |-> TRUE, idx |-> idx, snippet |-> <<>>]
    ELSE [hit |-> TRUE, threw |-> FALSE, idx |-> idx,
          snippet |-> Highlight(SnippetWindow(plain, idx), q)]

(***************************************************************************)
(* State                                                                   *)
(***************************************************************************)
VARIABLES
    windowI18n,       \* whether window.i18n exists (i18n.js was loaded)
    currentLanguage,  \* I18n.currentLanguage
    translations,     \* I18n.translations, an object keyed by language code
    storage,          \* localStorage.getItem('language'): a string or null
    docLang,          \* document.documentElement.lang
    document,         \* the elements of the live page that translate() visits
    loads,            \* translation fetches in flight: [id, lang, owner]
    issued,           \* per language, the number of translation fetches issued
    settled,          \* per language, the outcomes of the loads that completed
    calls,            \* number of i18n operations started so far
    ret,              \* the last call that returned: [op, arg, val, call]
    location,         \* the value of the query parameter in window.location
    files,            \* Buscador.files
    server,           \* the responses each page request may get
    resultsEl,        \* Buscador.resultsEl: [present, children]
    inputEl,          \* the search input: [present, value, valid (its selector)]
    searches          \* the search() invocations

i18nVars == <<windowI18n, currentLanguage, translations, storage, docLang,
              document, loads, issued, settled, calls, ret>>

searchVars == <<location, files, server, resultsEl, inputEl, searches>>

vars == <<i18nVars, searchVars>>

(***************************************************************************)
(* Bounds and environment                                                  *)
(***************************************************************************)
\* search() invocations in one run.
MaxSearches == 2

\* State-changing i18n operations (init, switchLanguage, setLanguage) that
\* other scripts start in one run.
MaxCalls == 1

ES == <<"es">>

EN == <<"en">>

FR == <<"fr">>

\* Language codes a caller may pass or the environment may hold.
LangCodes == { ES, EN, FR }

\* navigator.language
NavigatorLanguages == { <<"es", "-", "ES">>, <<"fr">>, <<>> }

\* What localStorage may hold under 'language' when the page loads.
StoredLanguages == { Null, Str(EN), Str(FR) }

EmptyQueryKey == <<"search", ".", "empty_query">>

NoResultsKey == <<"search", ".", "no_results">>

\* The translation files i18n/<lang>.json that the server holds.
TableES ==
    Obj((<<"search">> :> Obj((<<"empty_query">> :> Str(<<"Introduce un termino">>))
                          @@ (<<"no_results">> :> Str(<<"Sin coincidencias">>))))
        @@ (<<"g">> :> Str(<<"h", "o", "l", "a">>))
        @@ (<<"m">> :> Str(<<"<b>", "x", "</b>">>))
        @@ (<<"e">> :> Str(<<>>)))

TableEN ==
    Obj((<<"search">> :> Obj((<<"empty_query">> :> Str(<<"Enter a search term">>))
                          @@ (<<"no_results">> :> Str(<<"No matches">>))))
        @@ (<<"g">> :> Str(<<"h", "i">>))
        @@ (<<"m">> :> Str(<<"<b>", "y", "</b>">>))
        @@ (<<"e">> :> Str(<<>>)))

ServerTable(lang) == IF lang = ES THEN TableES ELSE TableEN

\* How a translation fetch may end: fetch rejects, the response is not ok,
\* response.json() rejects, or the body parses to the table.
LoadOutcomes == { "networkError", "notOk", "malformed", "ok" }

(***************************************************************************)
(* DOM elements                                                            *)
(***************************************************************************)
Attr(name, value) == (name :> value)

NoAttrs == [k \in {} |-> <<>>]

Element(tag, attrs, text) == [tag |-> tag, attrs |-> attrs, text |-> text, value |-> <<>>]

HasAttribute(el, name) == name \in DOMAIN el.attrs

SetAttribute(el, name, value) ==
    [el EXCEPT !.attrs = [x \in DOMAIN el.attrs \cup {name} |->
                            IF x = name THEN value ELSE el.attrs[x]]]

MarkupTags == { "<mark>", "</mark>", "<b>", "</b>" }

\* The text content of markup after el.innerHTML = markup.
TextOfMarkup(markup) == SelectSeq(markup, LAMBDA a : a \notin MarkupTags)

(***************************************************************************)
(* I18n                                                                    *)
(***************************************************************************)
supportedLanguages == <<ES, EN>>

Includes(array, x) == \E i \in 1..Len(array) : array[i] = x

\* getStoredLanguage() with the given stored item and navigator.language.
getStoredLanguage(item, navigatorLanguage) ==
    Or(item, Str(Split(navigatorLanguage, "-")[1]))

\* The walk of t(key) over the segments keys[i..] starting from obj.
RECURSIVE Walk(_, _, _, _)
Walk(obj, keys, i, key) ==
    IF i > Len(keys) THEN obj
    ELSE LET o == GetProp(obj, keys[i])
         IN  IF ~Truthy(o) THEN Str(key) ELSE Walk(o, keys, i + 1, key)

\* t(key) against a cache and a current language; the value it returns.
Translate(cache, lang, key) ==
    Walk(Or(GetProp(cache, lang), EmptyObject), Split(key, "."), 1, key)

t(key) == Translate(translations, currentLanguage, key)

\* A translate() that looks at the attribute marker before the tag name.
TranslateElementAttrFirst(cache, lang, el) ==
    IF ~HasAttribute(el, <<"data-i18n">>) THEN el
    ELSE
      LET text == ToStr(Translate(cache, lang, el.attrs[<<"data-i18n">>])) IN
      IF HasAttribute(el, <<"data-i18n-attr">>)
      THEN SetAttribute(el, el.attrs[<<"data-i18n-attr">>], text)
      ELSE IF el.tag \in { "INPUT", "TEXTAREA" }
      THEN IF HasAttribute(el, <<"placeholder">>)
           THEN SetAttribute(el, <<"placeholder">>, text)
           ELSE [el EXCEPT !.value = text]
      ELSE IF HasAttribute(el, <<"data-i18n-html">>)
      THEN [el EXCEPT !.text = TextOfMarkup(text)]
      ELSE [el EXCEPT !.text = text]

\* The body of elements.forEach in translate(), for one element.
TranslateElement(cache, lang, el) ==
    IF ~HasAttribute(el, <<"data-i18n">>) THEN el
    ELSE
      LET text == ToStr(Translate(cache, lang, el.attrs[<<"data-i18n">>])) IN
      IF el.tag \in { "INPUT", "TEXTAREA" }
      THEN IF HasAttribute(el, <<"placeholder">>)
           THEN SetAttribute(el, <<"placeholder">>, text)
           ELSE [el EXCEPT !.value = text]
      ELSE IF HasAttribute(el, <<"data-i18n-attr">>)
      THEN SetAttribute(el, el.attrs[<<"data-i18n-attr">>], text)
      ELSE IF HasAttribute(el, <<"data-i18n-html">>)
      THEN [el EXCEPT !.text = TextOfMarkup(text)]
      ELSE [el EXCEPT !.text = text]

\* translate(element) over the elements of a tree.
TranslateTree(cache, lang, tree) ==
    [i \in 1..Len(tree) |-> TranslateElement(cache, lang, tree[i])]

\* if (this.translations[lang]) return;
Cached(cache, lang) == Truthy(GetProp(cache, lang))

\* A setLanguage that skips the supported-language test.
setLanguageUnchecked(lang) ==
    [val |-> TRUE, currentLanguage |-> lang, storage |-> Str(lang), docLang |-> lang]

\* setLanguage(lang): the value it returns and the state it leaves.
setLanguage(lang) ==
    IF Includes(supportedLanguages, lang)
    THEN [val |-> TRUE, currentLanguage |-> lang, storage |-> Str(lang), docLang |-> lang]
    ELSE [val |-> FALSE, currentLanguage |-> currentLanguage, storage |-> storage,
          docLang |-> docLang]

\* A cache test that never finds a table.
LoadNeededAlways(cache, lang) == TRUE

\* loadTranslations(lang) up to its first await: whether it goes on to fetch.
LoadNeeded(cache, lang) == ~Cached(cache, lang)

\* A loadTranslations without the catch block: a failure caches nothing and
\* rejects.
LoadSettledNoCatch(cache, lang, outcome) ==
    IF outcome = "ok"
    THEN [cache |-> SetProp(cache, lang, ServerTable(lang)), threw |-> FALSE]
    ELSE [cache |-> cache, threw |-> TRUE]

\* loadTranslations(lang) from the settling of its fetch on: the cache it
\* leaves and whether it rejects.
LoadSettled(cache, lang, outcome) ==
    IF outcome = "ok"
    THEN [cache |-> SetProp(cache, lang, ServerTable(lang)), threw |-> FALSE]
    ELSE [cache |-> SetProp(cache, lang, EmptyObject), threw |-> FALSE]

Owner(kind, s) == [kind |-> kind, s |-> s]

TotalIssued == LET RECURSIVE Sum(_)
                   Sum(S) == IF S = {} THEN 0
                             ELSE LET l == CHOOSE x \in S : TRUE
                                  IN  issued[l] + Sum(S \ {l})
               IN  Sum(LangCodes)

\* fetch(`i18n/${lang}.json`) is issued.
IssueLoad(owner, lang) ==
    /\ loads' = loads \cup { [id |-> TotalIssued + 1, lang |-> lang, owner |-> owner] }
    /\ issued' = [issued EXCEPT ![lang] = @ + 1]

\* The bookkeeping of a load that completes with the given outcome.
Complete(l, outcome, r) ==
    /\ loads' = loads \ {l}
    /\ translations' = r.cache
    /\ settled' = [settled EXCEPT ![l.lang] =
                      @ \cup { IF outcome = "ok" THEN "ok"
                               ELSE IF r.threw THEN "raised" ELSE "failed" }]

\* setLanguage(lang), called directly.
SetLanguage(lang) ==
    /\ windowI18n
    /\ calls < MaxCalls
    /\ calls' = calls + 1
    /\ LET r == setLanguage(lang) IN
       /\ currentLanguage' = r.currentLanguage
       /\ storage' = r.storage
       /\ docLang' = r.docLang
       /\ ret' = [op |-> "setLanguage", arg |-> lang, val |-> Bool(r.val),
                  call |-> calls + 1]
    /\ UNCHANGED <<windowI18n, translations, document, loads, issued, settled>>
    /\ UNCHANGED searchVars

\* t(key), called directly.
T(key) ==
    /\ windowI18n
    /\ ret' = [op |-> "t", arg |-> key, val |-> t(key), call |-> calls]
    /\ UNCHANGED <<windowI18n, currentLanguage, translations, storage, docLang,
                   document, loads, issued, settled, calls>>
    /\ UNCHANGED searchVars

\* A page-load handler: await window.i18n.init(); window.i18n.translate();
\* up to the await inside loadTranslations, or to its end when the table is
\* cached.
I18nInit ==
    /\ windowI18n
    /\ calls < MaxCalls
    /\ calls' = calls + 1
    /\ IF LoadNeeded(translations, currentLanguage)
       THEN /\ IssueLoad(Owner("init", 0), currentLanguage)
            /\ UNCHANGED <<docLang, document>>
       ELSE /\ docLang' = currentLanguage
            /\ document' = TranslateTree(translations, currentLanguage, document)
            /\ UNCHANGED <<loads, issued>>
    /\ UNCHANGED <<windowI18n, currentLanguage, translations, storage, settled, ret>>
    /\ UNCHANGED searchVars

\* The translation fetch of a page-load handler settles: loadTranslations
\* ends, init() sets the document language, the handler translates the page.
InitLoadSettle(l, outcome) ==
    /\ l \in loads
    /\ l.owner.kind = "init"
    /\ LET r == LoadSettled(translations, l.lang, outcome) IN
       /\ Complete(l, outcome, r)
       /\ IF r.threw THEN UNCHANGED <<docLang, document>>
          ELSE /\ docLang' = currentLanguage
               /\ document' = TranslateTree(r.cache, currentLanguage, document)
    /\ UNCHANGED <<windowI18n, currentLanguage, storage, issued, calls, ret>>
    /\ UNCHANGED searchVars

\* switchLanguage(lang) up to the await inside loadTranslations, or to its
\* end when it returns false or the table is cached.
SwitchLanguage(lang) ==
    /\ windowI18n
    /\ calls < MaxCalls
    /\ calls' = calls + 1
    /\ LET r == setLanguage(lang) IN
       /\ currentLanguage' = r.currentLanguage
       /\ storage' = r.storage
       /\ docLang' = r.docLang
       /\ IF ~r.val
          THEN /\ ret' = [op |-> "switchLanguage", arg |-> lang, val |-> Bool(FALSE),
                            call |-> calls + 1]
               /\ UNCHANGED <<document, loads, issued>>
          ELSE IF LoadNeeded(translations, lang)
          THEN /\ IssueLoad(Owner("switch", 0), lang)
               /\ UNCHANGED <<document, ret>>
          ELSE /\ document' = TranslateTree(translations, r.currentLanguage, document)
               /\ ret' = [op |-> "switchLanguage", arg |-> lang, val |-> Bool(TRUE),
                            call |-> calls + 1]
               /\ UNCHANGED <<loads, issued>>
    /\ UNCHANGED <<windowI18n, translations, settled>>
    /\ UNCHANGED searchVars

\* The translation fetch of a switchLanguage settles: the page is translated
\* and the call returns true.
SwitchLoadSettle(l, outcome) ==
    /\ l \in loads
    /\ l.owner.kind = "switch"
    /\ LET r == LoadSettled(translations, l.lang, outcome) IN
       /\ Complete(l, outcome, r)
       /\ IF r.threw THEN UNCHANGED <<document, ret>>
          ELSE /\ document' = TranslateTree(r.cache, currentLanguage, document)
               /\ ret' = [op |-> "switchLanguage", arg |-> l.lang, val |-> Bool(TRUE),
                            call |-> calls]
    /\ UNCHANGED <<windowI18n, currentLanguage, storage, docLang, issued, calls>>
    /\ UNCHANGED searchVars

(***************************************************************************)
(* Buscador                                                                *)
(***************************************************************************)
\* How a page request may end: fetch rejects (network error), or it resolves
\* with a response, ok or not, whose text is body.  A page is held as the
\* element tree that DOMParser makes of its text; the empty text is <<>>.
Rejected == [kind |-> "reject", ok |-> FALSE, body |-> <<>>]

Response(ok, body) == [kind |-> "response", ok |-> ok, body |-> body]

\* The two versions of the class in buscador.js: A (lines 19-317) and B
\* (lines 322-447).  They differ in the catch block of run() alone.
Versions == { "A", "B" }

\* An instance of version A whose run() has not been called.
IdleSearch ==
    [pc |-> "idle", q |-> <<>>, pending |-> {}, got |-> <<>>, order |-> <<>>,
     plains |-> <<>>, results |-> <<>>, mode |-> "none", pageFetches |-> 0,
     version |-> "A"]

\* An instance of the given version.
NewSearch(version) == [IdleSearch EXCEPT !.version = version]

\* (params.get(this.param) || '').trim()
getQuery == Trim(ToStr(Or(location, Str(<<>>))))

\* document.querySelector(this.inputSelector) throws a SyntaxError when the
\* configured selector is not a valid selector.
QuerySelectorThrows == ~inputEl.valid

\* setInputValue(q), when the selector is valid.
setInputValue(q) == IF inputEl.present THEN [inputEl EXCEPT !.value = q] ELSE inputEl

\* A test that takes no query for empty.
IsEmptyQueryNever(q) == FALSE

\* !q
IsEmptyQuery(q) == q = <<>>

\* fetch(f).then(r => r.text()).catch(() => '') for one settled request.
PageText(outcome) == IF outcome.kind = "reject" THEN <<>> ELSE outcome.body

\* A fetchFiles() without the catch: the promise of a request that fails
\* rejects, and Promise.all with it.
PageRejectsUncaught(outcome) == outcome.kind = "reject"

\* Whether the promise that fetchFiles() makes for one request rejects:
\* .catch(() => '') resolves it with '' whatever fetch or r.text() did.
PageRejects(outcome) == FALSE

\* fetchFiles(): Promise.all keeps the order of this.files.
fetchFiles(got) == [i \in 1..Len(files) |-> PageText(got[i])]

\* A loop that handles the pages in the order their requests settled.
ForEachOrderAsSettled(order) == order

\* texts.forEach((text, i) => ...): the order in which the indices are visited.
ForEachOrder(order) == [i \in 1..Len(files) |-> i]

\* doc.body.textContent
TextContent(doc) == Flatten([i \in 1..Len(doc) |-> doc[i].text])

\* The text search() extracts from one fetched page: parse, translate when
\* window.i18n exists, take the body text.
ExtractPlain(text) ==
    TextContent(IF windowI18n
                THEN TranslateTree(translations, currentLanguage, text)
                ELSE text)

\* What texts.forEach does with entry i.
Processed(texts, q, i) ==
    IF texts[i] = <<>>
    THEN [hit |-> FALSE, threw |-> FALSE, idx |-> 0 - 1, snippet |-> <<>>]
    ELSE SearchText(ExtractPlain(texts[i]), q)

\* The result list that the loop builds, given what it does with each entry
\* (outs) and the order in which the requests settled.
BuildResults(outs, order) ==
    LET hits == SelectSeq(ForEachOrder(order), LAMBDA i : outs[i].hit)
    IN  [k \in 1..Len(hits) |->
           [file |-> files[hits[k]], snippet |-> outs[hits[k]].snippet]]

Node(tag, text, file, by) == [tag |-> tag, text |-> text, file |-> file, by |-> by]

DefaultNoQueryText == <<"Introduce un término de búsqueda en el campo superior.">>

DefaultNoResultsText == <<"No se han encontrado coincidencias.">>

MessageText(key, default) == IF windowI18n THEN ToStr(t(key)) ELSE default

\* clearResultsEl(): every child goes; the first h2 comes back.
clearResultsEl(children) ==
    LET hs == { i \in 1..Len(children) : children[i].tag = "h2" }
    IN  IF hs = {} THEN <<>>
        ELSE <<children[CHOOSE i \in hs : \A j \in hs : i <= j]>>

\* renderNoQuery(), called by invocation by.
renderNoQuery(el, by) ==
    IF el.present
    THEN [el EXCEPT !.children =
            @ \o <<Node("p", MessageText(EmptyQueryKey, DefaultNoQueryText), <<>>, by)>>]
    ELSE el

\* renderNoResults()
renderNoResults(el, by) ==
    IF el.present
    THEN [el EXCEPT !.children =
            clearResultsEl(@)
              \o <<Node("p", MessageText(NoResultsKey, DefaultNoResultsText), <<>>, by)>>]
    ELSE el

\* renderResults(results)
renderResults(el, results, by) ==
    IF ~el.present THEN el
    ELSE [el EXCEPT !.children =
            clearResultsEl(@)
              \o [k \in 1..Len(results) |->
                    Node("article", <<"...">> \o results[k].snippet \o <<"...">>,
                         results[k].file, by)]]

ErrorText == <<"Error al buscar. Revisa la consola.">>

\* The catch block of run(): version A logs; version B logs and replaces the
\* whole content of the section by the error message.
runCatch(el, version, by) ==
    IF version = "B" /\ el.present
    THEN [el EXCEPT !.children = <<Node("p", ErrorText, <<>>, by)>>]
    ELSE el

\* The instance after run() has caught what search() threw.
Caught(sr) ==
    [sr EXCEPT !.pc = "failed",
               !.mode = IF sr.version = "B" THEN "error" ELSE sr.mode]

NextSearch == Cardinality({ s \in DOMAIN searches : searches[s].pc # "idle" }) + 1

\* A fetchFiles() that waits for the first page alone and takes the empty
\* string for the others.
AwaitFirstPage(sr) ==
    [sr EXCEPT !.pc = "awaitPages", !.pending = {1},
               !.got = [i \in 2..Len(files) |-> Rejected],
               !.pageFetches = Len(files)]

\* The page requests of fetchFiles() are issued.
AwaitPages(sr) ==
    [sr EXCEPT !.pc = "awaitPages", !.pending = 1..Len(files),
               !.pageFetches = Len(files)]

\* The address changes (a link, history.pushState): another query value.
Navigate(raw) ==
    /\ location # raw
    /\ location' = raw
    /\ UNCHANGED <<files, server, resultsEl, inputEl, searches>>
    /\ UNCHANGED i18nVars

\* run() calls search(): from the start to the first await that suspends it,
\* to its end on an empty query, or to the catch block of run() when
\* setInputValue throws.
SearchStart(s) ==
    /\ s = NextSearch
    /\ LET q == getQuery
           sr == [searches[s] EXCEPT !.q = q]
       IN
       /\ inputEl' = IF QuerySelectorThrows THEN inputEl ELSE setInputValue(q)
       /\ IF QuerySelectorThrows
          THEN /\ resultsEl' = runCatch(resultsEl, sr.version, s)
               /\ searches' = [searches EXCEPT ![s] = Caught(sr)]
               /\ UNCHANGED <<loads, issued>>
          ELSE IF IsEmptyQuery(q)
          THEN /\ resultsEl' = renderNoQuery(resultsEl, s)
               /\ searches' = [searches EXCEPT ![s] =
                                 [sr EXCEPT !.pc = "done", !.mode = "noQuery"]]
               /\ UNCHANGED <<loads, issued>>
          ELSE IF windowI18n /\ currentLanguage # <<>>
                  /\ LoadNeeded(translations, currentLanguage)
          THEN /\ IssueLoad(Owner("search", s), currentLanguage)
               /\ searches' = [searches EXCEPT ![s] = [sr EXCEPT !.pc = "awaitLoad"]]
               /\ UNCHANGED resultsEl
          ELSE /\ searches' = [searches EXCEPT ![s] = AwaitPages(sr)]
               /\ UNCHANGED <<resultsEl, loads, issued>>
    /\ UNCHANGED <<location, files, server>>
    /\ UNCHANGED <<windowI18n, currentLanguage, translations, storage, docLang,
                   document, settled, calls, ret>>

\* The translation fetch that search() awaits settles; a rejection is
\* swallowed; search() goes on to fetchFiles().
SearchLoadSettle(l, outcome) ==
    /\ l \in loads
    /\ l.owner.kind = "search"
    /\ Complete(l, outcome, LoadSettled(translations, l.lang, outcome))
    /\ searches' = [searches EXCEPT ![l.owner.s] = AwaitPages(@)]
    /\ UNCHANGED <<location, files, server, resultsEl, inputEl>>
    /\ UNCHANGED <<windowI18n, currentLanguage, storage, docLang, document,
                   issued, calls, ret>>

\* The rest of search() once Promise.all has resolved: the loop over the
\* texts (run once: outs, results) and the final render, or the catch block
\* of run() when the loop throws.
FinishSearch(sr, s) ==
    LET texts == fetchFiles(sr.got) IN
    \E outs \in { [i \in 1..Len(texts) |-> Processed(texts, sr.q, i)] } :
    \E results \in { BuildResults(outs, sr.order) } :
    LET threw == \E i \in 1..Len(texts) : outs[i].threw
        plains == [i \in 1..Len(texts) |->
                     IF texts[i] = <<>> THEN <<>> ELSE ExtractPlain(texts[i])]
    IN
    IF threw
    THEN /\ searches' = [searches EXCEPT ![s] = Caught(sr)]
         /\ resultsEl' = runCatch(resultsEl, sr.version, s)
    ELSE /\ searches' = [searches EXCEPT ![s] =
                           [sr EXCEPT !.pc = "done", !.results = results,
                                      !.plains = plains,
                                      !.mode = IF results = <<>> THEN "noResults"
                                               ELSE "results"]]
         /\ resultsEl' = IF results = <<>> THEN renderNoResults(resultsEl, s)
                         ELSE renderResults(resultsEl, results, s)

\* One page request settles; when it is the last, search() resumes and ends.
\* Were its promise to reject, Promise.all would reject at once and search()
\* would throw into the catch block of run().
PageSettle(s, i, outcome) ==
    /\ searches[s].pc = "awaitPages"
    /\ i \in searches[s].pending
    /\ outcome \in server[files[i]]
    /\ LET sr == [searches[s] EXCEPT
                    !.pending = @ \ {i},
                    !.order = Append(@, i),
                    !.got = [x \in DOMAIN @ \cup {i} |-> IF x = i THEN outcome ELSE @[x]]]
       IN  IF PageRejects(outcome)
           THEN /\ searches' = [searches EXCEPT ![s] = Caught(sr)]
                /\ resultsEl' = runCatch(resultsEl, sr.version, s)
           ELSE IF sr.pending # {}
           THEN /\ searches' = [searches EXCEPT ![s] = sr]
                /\ UNCHANGED resultsEl
           ELSE FinishSearch(sr, s)
    /\ UNCHANGED <<location, files, server, inputEl>>
    /\ UNCHANGED i18nVars

(***************************************************************************)
(* The site, the initial states and the specifications                     *)
(***************************************************************************)
\* The configured page list: the first NumFiles of the default list.
NumFiles == 2

SiteFiles ==
    << <<"index.html">>, <<"aficiones.html">>, <<"tecnologias.html">>,
       <<"formacion.html">>, <<"contacto.html">> >>

\* The pages as the server holds them.
PageBody(f) ==
    CASE f = <<"index.html">> ->
            << Element("H1", Attr(<<"data-i18n">>, <<"g">>), <<"h", "o", "l", "a">>),
               Element("P", NoAttrs, <<" ", "A", "b">>) >>
      [] f = <<"aficiones.html">> ->
            << Element("P", NoAttrs, <<"c", "h", "i">>) >>
      [] f = <<"tecnologias.html">> ->
            << Element("P", NoAttrs, <<"b", "a">>) >>
      [] OTHER ->
            << Element("P", NoAttrs, <<"c">>) >>

\* The page a server sends with a 404.
NotFoundBody == << Element("P", NoAttrs, <<"o", "h">>) >>

SiteServer(fs) ==
    [f \in { fs[i] : i \in 1..Len(fs) } |->
        { Rejected, Response(TRUE, PageBody(f)), Response(FALSE, NotFoundBody) }]

\* Values of the query parameter: absent, blank, and a term.
RawQueries == { Null, Str(<<" ">>), Str(<<" ", "H", " ">>) }

\* The live page: a translated heading and the search input.
PageDocument ==
    << Element("H1", Attr(<<"data-i18n">>, <<"g">>), <<"h", "o", "l", "a">>),
       Element("INPUT", Attr(<<"data-i18n">>, <<"search", ".", "empty_query">>)
                          @@ Attr(<<"placeholder">>, <<"Buscar">>), <<>>) >>

Heading == Node("h2", <<"Resultados">>, <<>>, 0)

\* The output section of the search page when it loads.
SearchPageSection == [present |-> TRUE, children |-> <<Heading>>]

\* What document.querySelector('main section:first-child') may give on a
\* page: nothing, or the section.
InitialContainers == { [present |-> FALSE, children |-> <<>>], SearchPageSection }

\* new I18n(): this.currentLanguage = this.getStoredLanguage() || 'es'
InitI18n ==
    /\ windowI18n \in BOOLEAN
    /\ storage \in (IF windowI18n THEN StoredLanguages ELSE { Null })
    /\ \E nav \in (IF windowI18n THEN NavigatorLanguages ELSE { <<>> }) :
          currentLanguage = ToStr(Or(getStoredLanguage(storage, nav), Str(ES)))
    /\ translations = EmptyObject
    /\ docLang = ES
    /\ document = PageDocument
    /\ loads = {}
    /\ issued = [l \in LangCodes |-> 0]
    /\ settled = [l \in LangCodes |-> {}]
    /\ calls = 0
    /\ ret = [op |-> "none", arg |-> <<>>, val |-> Undefined, call |-> 0]

\* new Buscador({ files }) on a page whose address carries one of the queries
\* and whose output section is one of containers.
InitBuscador(fs, containers) ==
    /\ location \in RawQueries
    /\ files = fs
    /\ server = SiteServer(files)
    /\ resultsEl \in containers
    /\ inputEl = [present |-> TRUE, value |-> <<>>, valid |-> TRUE]

\* One visit of the search page: a single run() of the search, with the
\* translation store and the operations that other scripts call on it.
Init ==
    /\ InitI18n
    /\ InitBuscador(SubSeq(SiteFiles, 1, NumFiles), { SearchPageSection })
    /\ searches = [s \in {1} |-> IdleSearch]

Next ==
    \/ \E s \in DOMAIN searches : SearchStart(s)
    \/ \E l \in loads, o \in LoadOutcomes : SearchLoadSettle(l, o)
    \/ \E s \in DOMAIN searches, i \in 1..Len(files) :
          \E o \in server[files[i]] : PageSettle(s, i, o)
    \/ I18nInit
    \/ \E lang \in LangCodes : SwitchLanguage(lang)
    \/ \E l \in loads, o \in LoadOutcomes : InitLoadSettle(l, o)
    \/ \E l \in loads, o \in LoadOutcomes : SwitchLoadSettle(l, o)

Spec == Init /\ [][Next]_vars

\* Page request i of the invocation is in flight.
PagePending(i) == searches[1].pc = "awaitPages" /\ i \in searches[1].pending

\* The translation fetch with this number is in flight.
LoadPending(id) == \E l \in loads : l.id = id

\* Every request that was issued settles: the browser ends each fetch with a
\* response or with an error, and the continuation of the request then runs.
\* For a request this is weak fairness of the step in which it settles,
\* written with the enabling condition of that step: the step is enabled
\* exactly while the request is in flight, and it ends that.  The invocation
\* resumes when the translation fetch that it awaits has settled.
FetchesSettle ==
    /\ (\A i \in 1..NumFiles : []<>(~PagePending(i)))
    /\ (\A id \in 1..(MaxCalls + 1) : []<>(~LoadPending(id)))
    /\ WF_vars(\E l \in loads, o \in LoadOutcomes : SearchLoadSettle(l, o))

FairSpec == Init /\ [][Next]_vars /\ FetchesSettle

\* Repeated searches on one page, with or without an output section: run()
\* is called up to MaxSearches times (the instances that the scripts create,
\* a call from the console) while the address may change between the calls.
\* The page list holds one page.
InitRerun ==
    /\ InitI18n
    /\ InitBuscador(SubSeq(SiteFiles, 1, 1), InitialContainers)
    /\ searches = [s \in 1..MaxSearches |-> IdleSearch]

NextRerun ==
    \/ \E raw \in RawQueries : Navigate(raw)
    \/ \E s \in DOMAIN searches : SearchStart(s)
    \/ \E l \in loads, o \in LoadOutcomes : SearchLoadSettle(l, o)
    \/ \E s \in DOMAIN searches, i \in 1..Len(files) :
          \E o \in server[files[i]] : PageSettle(s, i, o)

RerunSpec == InitRerun /\ [][NextRerun]_vars

\* Repeated searches by instances of either version of the class, configured
\* with an input selector that may be invalid.
InitGuard ==
    /\ InitI18n
    /\ location \in RawQueries
    /\ files = SubSeq(SiteFiles, 1, 1)
    /\ server = SiteServer(files)
    /\ resultsEl \in InitialContainers
    /\ \E valid \in BOOLEAN :
          inputEl = [present |-> TRUE, value |-> <<>>, valid |-> valid]
    /\ \E version \in Versions :
          searches = [s \in 1..MaxSearches |-> NewSearch(version)]

GuardSpec == InitGuard /\ [][NextRerun]_vars

\* The translation store alone, with every operation of its interface.
Keys ==
    { <<>>, <<"g">>, <<"e">>, <<"x">>, <<"search">>, EmptyQueryKey,
      <<"search", ".", "x">>, <<"g", ".", "x">>, <<"x", ".", "g">>,
      <<"g", ".", "length">>, <<"constructor">>, <<".">> }

InitStore ==
    /\ InitI18n
    /\ windowI18n
    /\ location = Null
    /\ files = SubSeq(SiteFiles, 1, NumFiles)
    /\ server = SiteServer(files)
    /\ resultsEl = [present |-> FALSE, children |-> <<>>]
    /\ inputEl = [present |-> TRUE, value |-> <<>>, valid |-> TRUE]
    /\ searches = [s \in {1} |-> IdleSearch]

NextStore ==
    \/ \E lang \in LangCodes \cup { <<>> } : SetLanguage(lang)
    \/ \E key \in Keys : T(key)
    \/ I18nInit
    \/ \E lang \in LangCodes : SwitchLanguage(lang)
    \/ \E l \in loads, o \in LoadOutcomes : InitLoadSettle(l, o)
    \/ \E l \in loads, o \in LoadOutcomes : SwitchLoadSettle(l, o)

StoreSpec == InitStore /\ [][NextStore]_vars

\* A page with one element of any kind and an unmarked paragraph, translated
\* by the page-load handler and by language switches.
ElementTags == { "INPUT", "TEXTAREA", "P" }

OptionalAttrs ==
    { Attr(<<"placeholder">>, <<"Buscar">>),
      Attr(<<"data-i18n-attr">>, <<"title">>),
      Attr(<<"data-i18n-html">>, <<>>),
      Attr(<<"data-i18n">>, <<"g">>),
      Attr(<<"data-i18n">>, <<"m">>) }

\* The attribute maps made of a set of single attributes with distinct names.
RECURSIVE Merge(_)
Merge(S) ==
    IF S = {} THEN NoAttrs
    ELSE LET a == CHOOSE x \in S : TRUE IN a @@ Merge(S \ {a})

AttrMaps ==
    { Merge(S) : S \in { U \in SUBSET OptionalAttrs :
                           \A a, b \in U : a # b => DOMAIN a # DOMAIN b } }

Elements == { Element(tag, attrs, <<"c">>) : tag \in ElementTags, attrs \in AttrMaps }

InitTranslate ==
    /\ windowI18n = TRUE
    /\ storage \in StoredLanguages
    /\ \E nav \in NavigatorLanguages :
          currentLanguage = ToStr(Or(getStoredLanguage(storage, nav), Str(ES)))
    /\ translations = EmptyObject
    /\ docLang = ES
    /\ \E el \in Elements : document = <<el, Element("P", NoAttrs, <<"c">>)>>
    /\ loads = {}
    /\ issued = [l \in LangCodes |-> 0]
    /\ settled = [l \in LangCodes |-> {}]
    /\ calls = 0
    /\ ret = [op |-> "none", arg |-> <<>>, val |-> Undefined, call |-> 0]
    /\ location = Null
    /\ files = SubSeq(SiteFiles, 1, 1)
    /\ server = SiteServer(files)
    /\ resultsEl = [present |-> FALSE, children |-> <<>>]
    /\ inputEl = [present |-> TRUE, value |-> <<>>, valid |-> TRUE]
    /\ searches = [s \in {1} |-> IdleSearch]

NextTranslate ==
    \/ I18nInit
    \/ \E lang \in LangCodes : SwitchLanguage(lang)
    \/ \E l \in loads, o \in LoadOutcomes : InitLoadSettle(l, o)
    \/ \E l \in loads, o \in LoadOutcomes : SwitchLoadSettle(l, o)

TranslateSpec == InitTranslate /\ [][NextTranslate]_vars

\* One search over one page of plain text, for the per-page step alone: the
\* query and the text are drawn from bounded sets that straddle the window.
MaxQueryLen == 2

QueryAlphabet == { "a", "B", ".", "+" }

Repeat(c, n) == [i \in 1..n |-> c]

SnippetQueries ==
    UNION { [1..n -> QueryAlphabet] : n \in 1..MaxQueryLen }
      \cup { Repeat("a", SnippetRadius), Repeat("a", SnippetRadius + 1) }

SwapCase(w) ==
    [i \in 1..Len(w) |->
        CASE w[i] = "a" -> "A" [] w[i] = "A" -> "a"
          [] w[i] = "B" -> "b" [] w[i] = "b" -> "B"
          [] OTHER -> w[i]]

PadLens == { 0, SnippetRadius - 1, SnippetRadius + 1 }

Decoys == { <<>>, <<" ", "a", "x", " ">>, <<"b", "a", "a", "b", "\n">> }

\* Texts around a query: padding, a decoy, then the query as written, in
\* the other case, or not at all, then padding.
SnippetTexts(q) ==
    { Repeat("x", pre) \o decoy \o occ \o Repeat("y", post) :
        pre \in PadLens, post \in PadLens, decoy \in Decoys,
        occ \in { q, SwapCase(q), <<"z">> } }

TextPage(text) == << Element("P", NoAttrs, text) >>

InitSnippet ==
    /\ InitI18n
    /\ ~windowI18n
    /\ files = SubSeq(SiteFiles, 1, 1)
    /\ \E q \in SnippetQueries : \E text \in SnippetTexts(q) :
          /\ location = Str(q)
          /\ server = [f \in { files[1] } |-> { Response(TRUE, TextPage(text)) }]
    /\ resultsEl = SearchPageSection
    /\ inputEl = [present |-> TRUE, value |-> <<>>, valid |-> TRUE]
    /\ searches = [s \in {1} |-> IdleSearch]

NextSnippet ==
    \/ SearchStart(1)
    \/ \E o \in server[files[1]] : PageSettle(1, 1, o)

SnippetSpec == InitSnippet /\ [][NextSnippet]_vars

\* One search over one text page whose text holds capital I with dot above
\* (U+0130), the character that toLowerCase() turns into two code units.
WindowQueries == UNION { [1..n -> { "a", "B" }] : n \in 1..MaxQueryLen }

DottedLens == { 0, 1, SnippetRadius + 1 }

\* Texts around a query: padding, a run of U+0130, the query, padding.
WindowTexts(q) ==
    { Repeat("x", pre) \o Repeat("U+0130", n) \o q \o Repeat("y", post) :
        pre \in PadLens, n \in DottedLens, post \in PadLens }

InitWindow ==
    /\ InitI18n
    /\ ~windowI18n
    /\ files = SubSeq(SiteFiles, 1, 1)
    /\ \E q \in WindowQueries : \E text \in WindowTexts(q) :
          /\ location = Str(q)
          /\ server = [f \in { files[1] } |-> { Response(TRUE, TextPage(text)) }]
    /\ resultsEl = SearchPageSection
    /\ inputEl = [present |-> TRUE, value |-> <<>>, valid |-> TRUE]
    /\ searches = [s \in {1} |-> IdleSearch]

WindowSpec == InitWindow /\ [][NextSnippet]_vars

(***************************************************************************)
(* Properties                                                              *)
(***************************************************************************)
\* The position of a page in the configured list.
FileIndex(f) == CHOOSE i \in 1..Len(files) : files[i] = f

\* The searches that have ended normally after fetching the pages.
Finished == { s \in DOMAIN searches :
                searches[s].pc = "done" /\ searches[s].mode # "noQuery" }

\* Whether text contains q without regard to case.
ContainsIgnoreCase(text, q) == IndexOf(ToLowerCase(text), ToLowerCase(q)) # -1

\* C1: when search() reads a query that is empty after trimming, it ends in
\* that same step: it issues no page fetch and starts no translation load,
\* and when the output container exists it appends the empty-query message.
\* A search that ended this way has fetched no page.
EmptyQueryEndsWithoutFetch ==
    /\ [][\A s \in DOMAIN searches :
            (searches[s].pc = "idle" /\ searches'[s].pc # "idle" /\ getQuery = <<>>) =>
               /\ searches'[s].pc = "done"
               /\ searches'[s].mode = "noQuery"
               /\ searches'[s].pageFetches = 0
               /\ issued' = issued
               /\ loads' = loads
               /\ resultsEl.present =>
                    resultsEl'.children =
                      Append(resultsEl.children,
                             Node("p", MessageText(EmptyQueryKey, DefaultNoQueryText),
                                  <<>>, s))]_vars
    /\ [](\A s \in DOMAIN searches :
            (searches[s].pc # "idle" /\ searches[s].q = <<>>) =>
               /\ searches[s].pc = "done"
               /\ searches[s].pageFetches = 0
               /\ \A l \in loads : l.owner # Owner("search", s))

\* C1 witness: a search on an empty query has ended and its message stands
\* after the heading, with no page fetched.
EmptyQueryRendered ==
    \E s \in DOMAIN searches :
        /\ searches[s].pc = "done"
        /\ searches[s].mode = "noQuery"
        /\ searches[s].pageFetches = 0
        /\ resultsEl.present
        /\ Len(resultsEl.children) = 2
        /\ resultsEl.children[2].tag = "p"
        /\ resultsEl.children[2].by = s

\* C2: the result list holds a result for a page if and only if the page's
\* fetch succeeded (a response with a success status) and the text extracted
\* from it contains the query without regard to case.
ResultIffFetchedAndMatching ==
    \A s \in Finished :
        \A i \in 1..Len(files) :
            (\E k \in 1..Len(searches[s].results) :
                 searches[s].results[k].file = files[i])
              <=> /\ searches[s].got[i].kind = "response"
                  /\ searches[s].got[i].ok
                  /\ ContainsIgnoreCase(searches[s].plains[i], searches[s].q)

\* C3: the results of a search come in the order of the configured page
\* list, whatever the order in which the requests settled, and no page has
\* two results.
ResultsInListOrder ==
    \A s \in Finished :
        \A j, k \in 1..Len(searches[s].results) :
            j < k => FileIndex(searches[s].results[j].file)
                       < FileIndex(searches[s].results[k].file)

\* C3 witness: two pages matched and the request of the second page settled
\* before that of the first.
TwoResultsSettledInReverse ==
    \E s \in Finished :
        /\ Len(searches[s].results) = 2
        /\ searches[s].order = <<2, 1>>

\* C4: once an invocation has rendered, the output container holds the
\* heading and nodes of one invocation only.
ContainerHoldsOneInvocation ==
    resultsEl.present =>
        /\ resultsEl.children # <<>>
        /\ resultsEl.children[1] = Heading
        /\ \A i, j \in 2..Len(resultsEl.children) :
              resultsEl.children[i].by = resultsEl.children[j].by

\* The start, in the extracted text, of the first occurrence of the query.
FirstOccurrence(s) == MatchIndex(searches[s].plains[1], searches[s].q)

\* C5: when the page text contains the query, the recorded snippet holds the
\* first occurrence, in the casing of the text, inside the highlight marker.
SnippetMarksFirstOccurrence ==
    \A s \in Finished :
        ContainsIgnoreCase(searches[s].plains[1], searches[s].q) =>
            /\ Len(searches[s].results) = 1
            /\ IndexOf(searches[s].results[1].snippet,
                       Mark \o Slice(searches[s].plains[1], FirstOccurrence(s),
                                     FirstOccurrence(s) + Len(searches[s].q))
                            \o EndMark) # -1

\* The occurrences of q in text without regard to case, left to right and
\* not overlapping, from position pos: <<start, end>> pairs.
RECURSIVE LiteralSpans(_, _, _)
LiteralSpans(text, q, pos) ==
    LET hits == { p \in pos..(Len(text) - Len(q)) :
                    ToLowerCase(Slice(text, p, p + Len(q))) = ToLowerCase(q) }
    IN  IF hits = {} THEN <<>>
        ELSE LET p == CHOOSE x \in hits : \A y \in hits : x <= y
             IN  <<<<p, p + Len(q)>>>> \o LiteralSpans(text, q, p + Len(q))

\* C6: the parts of a snippet that the highlight pattern marks are exactly
\* the literal occurrences of the query, without regard to case: each is
\* marked and nothing else is.
HighlightIsLiteral ==
    \A s \in Finished :
        \A k \in 1..Len(searches[s].results) :
            LET window == TextOfMarkup(searches[s].results[k].snippet)
            IN  searches[s].results[k].snippet =
                  ReplaceSpans(window, LiteralSpans(window, searches[s].q, 0), 0)

\* C6 witness: a query ending in the wildcard sign, a snippet that holds the
\* query literally and also "ax", and one marked part.
LiteralDotHighlighted ==
    \E s \in Finished :
        /\ searches[s].q = <<"a", ".">>
        /\ Len(searches[s].results) = 1
        /\ LET snippet == searches[s].results[1].snippet
           IN  /\ IndexOf(snippet, <<"a", "x">>) # -1
               /\ IndexOf(snippet, Mark \o <<"a", ".">> \o EndMark) # -1
               /\ Cardinality({ i \in 1..Len(snippet) : snippet[i] = Mark[1] }) = 1

\* The language codes the site supports.
SupportedCodes == { <<"es">>, <<"en">> }

\* C7: setLanguage(code) with a supported code sets the current language
\* and the persisted preference to code and returns true; with any other
\* string it returns false and changes neither.
SetLanguageContract ==
    [][(ret'.op = "setLanguage" /\ calls' # calls /\ ret'.call = calls') =>
          IF ret'.arg \in SupportedCodes
          THEN /\ ret'.val = Bool(TRUE)
               /\ currentLanguage' = ret'.arg
               /\ storage' = Str(ret'.arg)
          ELSE /\ ret'.val = Bool(FALSE)
               /\ currentLanguage' = currentLanguage
               /\ storage' = storage]_vars

\* C7 witness: setLanguage was called with an unsupported code, returned
\* false, and the language is another.
UnsupportedCodeRefused ==
    /\ ret.op = "setLanguage"
    /\ ret.arg = FR
    /\ ret.val = Bool(FALSE)
    /\ currentLanguage # FR
    /\ storage # Str(FR)

\* The value that the segments keys[i..] name in a table, through own
\* entries only; undefined when a segment is missing.
RECURSIVE Resolve(_, _, _)
Resolve(obj, keys, i) ==
    IF i > Len(keys) THEN obj
    ELSE IF obj.t = "object" /\ keys[i] \in DOMAIN obj.f
         THEN Resolve(obj.f[keys[i]], keys, i + 1)
         ELSE Undefined

\* Whether key resolves to a string in the cached table of the current
\* language.
ResolvesToString(key) ==
    /\ currentLanguage \in DOMAIN translations.f
    /\ Resolve(translations.f[currentLanguage], Split(key, "."), 1).t = "string"

\* C8: t(key) returns exactly key whenever key does not resolve to a string
\* in the cached table of the current language.
UnresolvedKeyComesBack ==
    [][(ret'.op = "t" /\ ret' # ret /\ ~ResolvesToString(ret'.arg)) =>
          ret'.val = Str(ret'.arg)]_vars

\* C9: once a load of a language has completed successfully, no later step
\* issues a fetch for that language.
NoFetchAfterSuccessfulLoad ==
    [][\A l \in LangCodes :
          "ok" \in settled[l] => issued'[l] = issued[l]]_vars

\* C9 witness: a page-load handler or a language switch and a search have
\* both called loadTranslations for the current language, the load succeeded,
\* and one fetch was issued in all.
SecondCallWithoutFetch ==
    /\ windowI18n
    /\ calls = 1
    /\ ~(ret.op = "switchLanguage" /\ ret.val = Bool(FALSE))
    /\ settled[currentLanguage] = { "ok" }
    /\ TotalIssued = 1
    /\ \E s \in DOMAIN searches :
          searches[s].pc = "awaitPages" /\ searches[s].q # <<>>

\* C10: a translation fetch that fails never makes loadTranslations raise;
\* the failing completion leaves an empty table cached for the language;
\* from then on no fetch is issued for that language.
FailedLoadCachesEmptyTable ==
    /\ [](\A l \in LangCodes : "raised" \notin settled[l])
    /\ [][\A l \in LangCodes :
            /\ ("failed" \in settled'[l] /\ "failed" \notin settled[l]) =>
                  GetProp(translations', l) = EmptyObject
            /\ "failed" \in settled'[l] => issued'[l] = issued[l]]_vars

\* C10 witness: a page-load handler or a language switch and a search have
\* both called loadTranslations for the current language, the load failed,
\* the empty table is cached, and one fetch was issued in all.
FailedLoadThenSearch ==
    /\ windowI18n
    /\ calls = 1
    /\ ~(ret.op = "switchLanguage" /\ ret.val = Bool(FALSE))
    /\ settled[currentLanguage] = { "failed" }
    /\ GetProp(translations, currentLanguage) = EmptyObject
    /\ TotalIssued = 1
    /\ \E s \in DOMAIN searches :
          searches[s].pc = "awaitPages" /\ searches[s].q # <<>>

\* The searches whose page requests have all settled.
Fetched == { s \in DOMAIN searches : searches[s].pc \in { "done", "failed" }
                                      /\ searches[s].pageFetches > 0 }

\* C11: fetchFiles() gives one entry per page in the order of the list, and
\* the entry of a page whose request failed, by a network error or by a
\* non-success status, is the empty string.
FailedPageGivesEmptyString ==
    \A s \in Fetched :
        LET texts == fetchFiles(searches[s].got) IN
        /\ Len(texts) = Len(files)
        /\ \A i \in 1..Len(files) :
              (searches[s].got[i].kind = "reject" \/ ~searches[s].got[i].ok)
                 => texts[i] = <<>>

\* C12: when search() throws, run() catches it (the instance ends in the
\* caught state, nothing escapes) and the generic error message is rendered
\* in the output region.
CaughtErrorIsRendered ==
    [][\A s \in DOMAIN searches :
          (searches[s].pc # "failed" /\ searches'[s].pc = "failed"
             /\ resultsEl.present) =>
                \E i \in 1..Len(resultsEl'.children) :
                    resultsEl'.children[i] = Node("p", ErrorText, <<>>, s)]_vars

\* The fetches of the table of lang that are in flight.
InFlight(lang) == { l \in loads : l.lang = lang }

\* C13: each language has at most one table in flight or cached: no two
\* fetches for it are in flight together, and none is in flight while its
\* table is cached.
OneTablePerLanguage ==
    \A lang \in LangCodes :
        Cardinality(InFlight(lang)) + (IF Cached(translations, lang) THEN 1 ELSE 0) <= 1

\* C14: the current language is a supported code, from construction on and
\* after every setLanguage and switchLanguage call.
CurrentLanguageSupported == windowI18n => currentLanguage \in SupportedCodes

\* The result lists that the searches have built so far, and the empty one.
BuiltResults == { searches[s].results : s \in DOMAIN searches }

\* C15: each render mode, applied twice in a row to the output region,
\* leaves it as one application does.
RenderModesIdempotent ==
    /\ renderNoQuery(renderNoQuery(resultsEl, 1), 1) = renderNoQuery(resultsEl, 1)
    /\ renderNoResults(renderNoResults(resultsEl, 1), 1) = renderNoResults(resultsEl, 1)
    /\ \A results \in BuiltResults :
          renderResults(renderResults(resultsEl, results, 1), results, 1)
            = renderResults(resultsEl, results, 1)

\* C16: the heading that the output region held before the first render is
\* still in it after every render, whatever the outcomes of the searches.
HeadingPreserved ==
    resultsEl.present =>
        \E i \in 1..Len(resultsEl.children) : resultsEl.children[i] = Heading

\* The nodes that invocation s has put in the output region.
RenderedBy(el, s) == { i \in 1..Len(el.children) : el.children[i].by = s }

\* C17: a search on a non-empty query writes to the output region in one
\* step only, the one in which the last of its page requests settles; a
\* request that fails leaves the search to end normally once the others
\* have settled.
RenderAfterLastSettle ==
    /\ [][resultsEl' # resultsEl =>
            \E s \in DOMAIN searches :
                /\ searches[s].pc # "done"
                /\ searches'[s].pc = "done"
                /\ searches'[s].q # <<>> =>
                     /\ searches[s].pc = "awaitPages"
                     /\ Len(searches'[s].order) = Len(files)
                     /\ { searches'[s].order[k] : k \in 1..Len(files) } = 1..Len(files)]_vars
    /\ [](\A s \in DOMAIN searches :
            /\ searches[s].pc \in { "awaitLoad", "awaitPages" } =>
                  RenderedBy(resultsEl, s) = {}
            /\ searches[s].pc # "failed")

\* C17 witness: the request of the first page failed first, the second page
\* settled after it and matched, and the search has rendered its result.
RenderedAfterFailedPage ==
    \E s \in Finished :
        /\ searches[s].order = <<1, 2>>
        /\ searches[s].got[1] = Rejected
        /\ Len(searches[s].results) = 1
        /\ searches[s].results[1].file = files[2]
        /\ RenderedBy(resultsEl, s) # {}

\* C18: whatever the key and the cache, t(key) returns a string: the string
\* stored at the dotted path, or the key.
TranslateKeyReturnsString ==
    [][(ret'.op = "t" /\ ret' # ret) =>
          /\ ret'.val.t = "string"
          /\ \/ ret'.val = Str(ret'.arg)
             \/ /\ ResolvesToString(ret'.arg)
                /\ ret'.val = Resolve(translations.f[currentLanguage],
                                      Split(ret'.arg, "."), 1)]_vars

\* The one place of an element that a translation is written to.
Target(el) ==
    IF el.tag \in { "INPUT", "TEXTAREA" }
    THEN IF <<"placeholder">> \in DOMAIN el.attrs THEN "placeholder" ELSE "value"
    ELSE IF <<"data-i18n-attr">> \in DOMAIN el.attrs THEN "attribute"
    ELSE IF <<"data-i18n-html">> \in DOMAIN el.attrs THEN "markup"
    ELSE "text"

\* The name of the attribute that the target of el is, if it is one.
TargetAttribute(el) ==
    CASE Target(el) = "placeholder" -> { <<"placeholder">> }
      [] Target(el) = "attribute"   -> { el.attrs[<<"data-i18n-attr">>] }
      [] OTHER                      -> {}

\* after is before with text written to its target and nothing else changed.
WrittenToTarget(before, after, text) ==
    /\ after.tag = before.tag
    /\ after.value = IF Target(before) = "value" THEN text ELSE before.value
    /\ after.text = CASE Target(before) = "markup" -> TextOfMarkup(text)
                      [] Target(before) = "text"   -> text
                      [] OTHER                     -> before.text
    /\ DOMAIN after.attrs = DOMAIN before.attrs \cup TargetAttribute(before)
    /\ \A a \in DOMAIN after.attrs :
          after.attrs[a] = IF a \in TargetAttribute(before) THEN text
                           ELSE before.attrs[a]

\* C19: when the page is translated, each element with the translate marker
\* gets the translation of its key in exactly one place, chosen by the
\* precedence placeholder, value, named attribute, markup, text; an element
\* without the marker is left as it was.
TranslationWrittenByPrecedence ==
    [][document' # document =>
          /\ Len(document') = Len(document)
          /\ \A i \in 1..Len(document) :
                IF <<"data-i18n">> \in DOMAIN document[i].attrs
                THEN WrittenToTarget(document[i], document'[i],
                        ToStr(Translate(translations', currentLanguage',
                                        document[i].attrs[<<"data-i18n">>])))
                ELSE document'[i] = document[i]]_vars

\* C19 witness: a text input with no placeholder that carries the attribute
\* marker too has the translation in its value, and no title attribute.
InputValueBeatsAttribute ==
    /\ document[1].tag = "INPUT"
    /\ DOMAIN document[1].attrs = { <<"data-i18n">>, <<"data-i18n-attr">> }
    /\ document[1].attrs[<<"data-i18n">>] = <<"g">>
    /\ document[1].value = <<"h", "o", "l", "a">>
    /\ document[2] = Element("P", NoAttrs, <<"c">>)

\* C20: when a search translates the pages it fetched, the table of the
\* language that is current at that moment is cached.
SearchTranslatesWithCachedTable ==
    [][\A s \in DOMAIN searches :
          (/\ windowI18n
           /\ searches[s].pc = "awaitPages"
           /\ searches'[s].pc = "done"
           /\ \E i \in 1..Len(files) : PageText(searches'[s].got[i]) # <<>>)
             => Cached(translations, currentLanguage)]_vars

\* C21: a table that the cache holds for a language stays: every step leaves
\* the cache with that same table for the language, also when two
\* loadTranslations calls for the language settle with different outcomes.
CachedTableNeverReplaced ==
    [][\A lang \in LangCodes :
          Cached(translations, lang)
            => GetProp(translations', lang) = GetProp(translations, lang)]_vars

\* The invocation has put a no-results message or a result list in the
\* output region and has ended.
Rendered(s) ==
    /\ searches[s].pc = "done"
    /\ searches[s].mode \in { "noResults", "results" }
    /\ RenderedBy(resultsEl, s) # {}

\* C22: when every issued fetch settles, a search() that was called with a
\* non-empty query ends up rendered, with a no-results message or a result
\* list, whatever the outcomes of the translation load and of the page
\* fetches.
NonEmptySearchEventuallyRendered ==
    \A s \in 1..MaxSearches :
        (s \in DOMAIN searches /\ searches[s].pc # "idle" /\ searches[s].q # <<>>)
          ~> (s \in DOMAIN searches /\ Rendered(s))

\* A search has rendered although its translation load failed and a page
\* request was rejected.
RenderedDespiteFailures ==
    \E s \in DOMAIN searches :
        /\ Rendered(s)
        /\ searches[s].q # <<>>
        /\ windowI18n
        /\ settled[currentLanguage] = { "failed" }
        /\ \E i \in 1..Len(files) : searches[s].got[i] = Rejected

\* C23: for a match at index idx in a text of length len, the snippet window
\* from max(0, idx - 80) to min(len, idx + 80) satisfies
\* 0 <= start <= idx < end <= len and holds at most 160 characters.
SnippetWindowWithinText ==
    \A s \in Finished :
        LET plain == searches[s].plains[1]
            idx == FirstOccurrence(s)
            start == SnippetStart(idx)
            end == SnippetEnd(plain, idx)
        IN  idx # -1 =>
              /\ 0 <= start
              /\ start <= idx
              /\ idx < end
              /\ end <= Len(plain)
              /\ end - start <= 2 * SnippetRadius

====
